---- MODULE Spec2Model ----
(***************************************************************************)
(* Daily Log Lifecycle Engine of the SIWES logbook: LogService,            *)
(* SyncService and ReviewService over the DailyLog table, with the         *)
(* repositories and the ORM declarations they run on.                      *)
(*                                                                         *)
(* Dates are day numbers, coordinates whole degrees.  A call returns a     *)
(* record [err, id]: err = "ok" for a normal return, otherwise the kind of *)
(* exception that left the call.                                           *)
(***************************************************************************)
EXTENDS Integers, Sequences, FiniteSets, TLC

\* ---------------------------------------------------------------- bounds
MaxSeed == 1      \* rows the daily_logs table holds when the services start
MaxBatch == 2     \* entries in one sync_logs batch
MaxNew == 2       \* rows the calls of one run may add before no more are issued
MaxOffset == 15   \* days before and after the program start a date may lie

\* ------------------------------------------------------- program constants
ProgramWeeks == 25
DaysPerWeek == 7
MinLatitude == -90
MaxLatitude == 90
MinLongitude == -180
MaxLongitude == 180

\* --------------------------------------------------------------- values
None == "None"            \* Python None / SQL NULL
NoId == 0                 \* no row

Students == {"s1", "s2"}
Supervisors == {"sup1"}
\* Client tokens: one per seeded row, and two that no row carries at the start.
TokenName == <<"T1", "T2", "T3", "T4", "T5", "T6">>
SeedToken(i) == TokenName[i]
Fresh1 == TokenName[MaxSeed + 1]
Fresh2 == TokenName[MaxSeed + 2]

PENDING_REVIEW == "pending_review"
VERIFIED == "verified"
FLAGGED == "flagged"

WITHIN == "within"
OUTSIDE == "outside"
UNKNOWN == "unknown"

\* ----------------------------------------------------------- ORM schema
\* Attributes an instance of each mapped class has (columns, relationships,
\* mixin columns).  hasattr() and attribute access are decided by these.
DailyLogAttrs ==
    {"id", "client_uuid", "student_id", "placement_id", "log_date",
     "week_number", "activity_description", "latitude", "longitude",
     "distance_from_geofence", "location_status", "status",
     "created_offline_at", "synced_at", "reviewed_at", "reviewer_id",
     "reviewer_comment", "student", "placement", "reviewer",
     "created_at", "updated_at"}

\* Columns of daily_logs declared nullable=False without a default.
DailyLogNotNull ==
    {"client_uuid", "student_id", "placement_id", "log_date", "week_number",
     "activity_description"}

IndustrialPlacementAttrs ==
    {"id", "company_name", "address", "supervisor_contact", "geofence_id",
     "geofence", "students", "created_at", "updated_at"}

GeofenceAttrs ==
    {"id", "latitude", "longitude", "radius_meters", "placement",
     "created_at", "updated_at"}

\* ------------------------------------------------------------- results
Ok(i) == [err |-> "ok", id |-> i]
Raise(e) == [err |-> e, id |-> NoId]

\* ------------------------------------------------------------ the store
\* A row of daily_logs (the columns the services read or write).
Row(i, tok, s, day, wk, desc, lat, lon, loc, st) ==
    [id |-> i, client_uuid |-> tok, student_id |-> s, placement_id |-> "p1",
     log_date |-> day, week_number |-> wk, activity_description |-> desc,
     latitude |-> lat, longitude |-> lon, location_status |-> loc,
     status |-> st, reviewed_at |-> None, reviewer_id |-> None,
     reviewer_comment |-> None]

\* client_uuid is declared unique=True: no two rows share one.
UniqueClientUuid(rows) ==
    \A r1, r2 \in rows : r1.client_uuid = r2.client_uuid => r1 = r2

\* A session: the rows it sees, the ids it inserted and has not committed,
\* whether it is usable (a failed flush leaves it unusable until rollback),
\* and the next server-generated id (uuid4 never repeats).
Session(rows, nid) == [rows |-> rows, tx |-> {}, ok |-> TRUE, nextId |-> nid]

\* A flush that fails rolls the transaction back and invalidates the session.
FailedFlush(db) ==
    [db EXCEPT !.rows = {r \in db.rows : r.id \notin db.tx}, !.tx = {},
               !.ok = FALSE]

\* industrial_placements and geofences rows, as the mapped classes hold them.
GeofenceRow == [id |-> "g1", latitude |-> 6, longitude |-> 3,
                radius_meters |-> 500]
PlacementRow(p) == [id |-> p, company_name |-> "c", geofence_id |-> "g1",
                    geofence |-> GeofenceRow]
PlacementIds == {"p1"}

\* ------------------------------------------------ repositories (queries)
\* LogRepository.get_by_client_uuid: filter on client_uuid alone, first().
get_by_client_uuid(db, client_uuid) ==
    LET hit == {r \in db.rows : r.client_uuid = client_uuid}
    IN  IF ~db.ok THEN Raise("PendingRollbackError")
        ELSE IF hit = {} THEN Ok(NoId)
        ELSE Ok((CHOOSE r \in hit : \A q \in hit : r.id <= q.id).id)

\* BaseRepository.get_by_id: DailyLog has no deleted_at, so no row is hidden.
get_by_id(db, id) ==
    IF ~db.ok THEN Raise("PendingRollbackError")
    ELSE IF \E r \in db.rows : r.id = id
              /\ ("deleted_at" \in DailyLogAttrs => r.deleted_at = None)
         THEN Ok(id)
         ELSE Ok(NoId)

RowOf(rows, id) == CHOOSE r \in rows : r.id = id

\* PlacementRepository.get_placement_with_geofence: the filter names
\* IndustrialPlacement.deleted_at, which the mapped class does not have.
get_placement_with_geofence(db, placement_id) ==
    IF "deleted_at" \notin IndustrialPlacementAttrs
    THEN [err |-> "AttributeError", found |-> FALSE]
    ELSE IF ~db.ok THEN [err |-> "PendingRollbackError", found |-> FALSE]
    ELSE [err |-> "ok", found |-> placement_id \in PlacementIds]

\* --------------------------------------------------------- GeofenceService
validate_coordinates(latitude, longitude) ==
    IF ~(MinLatitude <= latitude /\ latitude <= MaxLatitude) THEN FALSE
    ELSE IF ~(MinLongitude <= longitude /\ longitude <= MaxLongitude) THEN FALSE
    ELSE TRUE

\* GeofenceService.calculate_distance: the haversine distance in metres on a
\* sphere of radius 6371000 m, for the whole-degree points of GridLat x
\* GridLon, rounded up to a whole metre (so that d <= r is decided exactly
\* for every whole-metre radius r).  Keys are <<lat1, lon1, lat2, lon2>>.
GridLat == {0, 6, 7}
GridLon == {0, 3}
HaversineMetres ==
    <<0, 0, 0, 0>> :> 0 @@ <<0, 0, 0, 3>> :> 333585 @@
    <<0, 0, 6, 0>> :> 667170 @@ <<0, 0, 6, 3>> :> 745646 @@
    <<0, 0, 7, 0>> :> 778365 @@ <<0, 0, 7, 3>> :> 846508 @@
    <<0, 3, 0, 0>> :> 333585 @@ <<0, 3, 0, 3>> :> 0 @@
    <<0, 3, 6, 0>> :> 745646 @@ <<0, 3, 6, 3>> :> 667170 @@
    <<0, 3, 7, 0>> :> 846508 @@ <<0, 3, 7, 3>> :> 778365 @@
    <<6, 0, 0, 0>> :> 667170 @@ <<6, 0, 0, 3>> :> 745646 @@
    <<6, 0, 6, 0>> :> 0 @@ <<6, 0, 6, 3>> :> 331757 @@
    <<6, 0, 7, 0>> :> 111195 @@ <<6, 0, 7, 3>> :> 349591 @@
    <<6, 3, 0, 0>> :> 745646 @@ <<6, 3, 0, 3>> :> 667170 @@
    <<6, 3, 6, 0>> :> 331757 @@ <<6, 3, 6, 3>> :> 0 @@
    <<6, 3, 7, 0>> :> 349591 @@ <<6, 3, 7, 3>> :> 111195 @@
    <<7, 0, 0, 0>> :> 778365 @@ <<7, 0, 0, 3>> :> 846508 @@
    <<7, 0, 6, 0>> :> 111195 @@ <<7, 0, 6, 3>> :> 349591 @@
    <<7, 0, 7, 0>> :> 0 @@ <<7, 0, 7, 3>> :> 331098 @@
    <<7, 3, 0, 0>> :> 846508 @@ <<7, 3, 0, 3>> :> 778365 @@
    <<7, 3, 6, 0>> :> 349591 @@ <<7, 3, 6, 3>> :> 111195 @@
    <<7, 3, 7, 0>> :> 331098 @@ <<7, 3, 7, 3>> :> 0

\* Variant of calculate_distance: the way along the meridian of the first
\* point and then along its parallel.
calculate_distance_along_first(lat1, lon1, lat2, lon2) ==
    HaversineMetres[<<lat1, lon1, lat2, lon1>>]
        + HaversineMetres[<<lat1, lon1, lat1, lon2>>]

calculate_distance(lat1, lon1, lat2, lon2) ==
    HaversineMetres[<<lat1, lon1, lat2, lon2>>]

\* Python None where an object is expected: it has no attributes.
NoObject == <<>>

\* GeofenceService.is_within_geofence reads geofence.center_latitude and
\* geofence.center_longitude.
is_within_geofence(latitude, longitude, geofence) ==
    IF DOMAIN geofence = {} THEN [err |-> "ok", val |-> FALSE]
    ELSE IF ~({"center_latitude", "center_longitude"} \subseteq DOMAIN geofence)
    THEN [err |-> "AttributeError", val |-> FALSE]
    ELSE [err |-> "ok",
          val |-> calculate_distance(latitude, longitude,
                                     geofence.center_latitude,
                                     geofence.center_longitude)
                  <= geofence.radius_meters]

\* GeofenceService.get_location_status
get_location_status(latitude, longitude, geofence) ==
    IF latitude = 0 /\ longitude = 0 THEN [err |-> "ok", val |-> UNKNOWN]
    ELSE IF DOMAIN geofence = {} THEN [err |-> "ok", val |-> UNKNOWN]
    ELSE LET w == is_within_geofence(latitude, longitude, geofence)
         IN  IF w.err # "ok" THEN [err |-> w.err, val |-> UNKNOWN]
             ELSE IF w.val THEN [err |-> "ok", val |-> WITHIN]
             ELSE [err |-> "ok", val |-> OUTSIDE]

\* ------------------------------------------------------------- LogService
\* Variant of calculate_week_number: the quotient is rounded towards zero.
calculate_week_number_truncating(log_date, placement) ==
    LET d == log_date - placement.start_date
    IN  IF "start_date" \notin DOMAIN placement
        THEN [err |-> "AttributeError", val |-> 0]
        ELSE [err |-> "ok",
              val |-> (IF d >= 0 THEN d \div DaysPerWeek
                       ELSE 0 - ((0 - d) \div DaysPerWeek)) + 1]

\* LogService._calculate_week_number reads placement.start_date.
calculate_week_number(log_date, placement) ==
    IF "start_date" \notin DOMAIN placement
    THEN [err |-> "AttributeError", val |-> 0]
    ELSE [err |-> "ok",
          val |-> ((log_date - placement.start_date) \div DaysPerWeek) + 1]

\* DailyLog(**data): the declarative constructor rejects a keyword that is
\* no attribute of the mapped class.
DailyLogInit(data) ==
    IF \E k \in DOMAIN data : k \notin DailyLogAttrs THEN "TypeError" ELSE "ok"

Field(data, k, dflt) == IF k \in DOMAIN data THEN data[k] ELSE dflt

\* The row an accepted DailyLog(**data) becomes, with the column defaults.
NewRow(data, id) ==
    [id |-> id,
     client_uuid |-> Field(data, "client_uuid", None),
     student_id |-> Field(data, "student_id", None),
     placement_id |-> Field(data, "placement_id", None),
     log_date |-> Field(data, "log_date", None),
     week_number |-> Field(data, "week_number", None),
     activity_description |-> Field(data, "activity_description", None),
     latitude |-> Field(data, "latitude", None),
     longitude |-> Field(data, "longitude", None),
     location_status |-> Field(data, "location_status", UNKNOWN),
     status |-> Field(data, "status", PENDING_REVIEW),
     reviewed_at |-> Field(data, "reviewed_at", None),
     reviewer_id |-> Field(data, "reviewer_id", None),
     reviewer_comment |-> Field(data, "reviewer_comment", None)]

\* The constraints a flush checks on one row against the others.
Violates(row, others) ==
    \/ \E c \in DailyLogNotNull : c \notin {"log_date", "week_number"}
                                  /\ row[c] = None
    \/ ~UniqueClientUuid(others \cup {row})

\* BaseRepository.create: construct, add, flush, refresh.
create(db, data) ==
    LET row == NewRow(data, db.nextId)
    IN  IF DailyLogInit(data) # "ok"
        THEN [res |-> Raise(DailyLogInit(data)), db |-> db]
        ELSE IF ~db.ok
        THEN [res |-> Raise("PendingRollbackError"), db |-> db]
        ELSE IF \/ \E c \in DailyLogNotNull : c \notin DOMAIN data
                \/ Violates(row, db.rows)
        THEN [res |-> Raise("IntegrityError"), db |-> FailedFlush(db)]
        ELSE [res |-> Ok(row.id),
              db |-> [db EXCEPT !.rows = @ \cup {row}, !.tx = @ \cup {row.id},
                                !.nextId = @ + 1]]

PlacementNotFound == "ValueError: Placement not found"
InvalidCoordinate == "ValueError: Invalid GPS coordinates"
OutOfProgramRange == "ValueError: Log date is outside SIWES period"

\* The dictionary create_log hands to the repository (log.py 131-145).
LogData(student_id, e, week_number, location_status) ==
    [student_id |-> student_id, placement_id |-> e.placement_id,
     log_date |-> e.log_date, week_number |-> week_number,
     activities |-> e.activities, skills_learned |-> None,
     challenges |-> None, latitude |-> e.latitude, longitude |-> e.longitude,
     location_status |-> location_status, status |-> PENDING_REVIEW,
     is_synced |-> (e.client_uuid = None), client_uuid |-> e.client_uuid]

\* A row written straight from the arguments of a call (used by the variants
\* of create_log_tail below).
RowFromArgs(db, student_id, e) ==
    NewRow([student_id |-> student_id, client_uuid |-> e.client_uuid,
            placement_id |-> e.placement_id, log_date |-> e.log_date,
            week_number |-> 1, activity_description |-> e.activities,
            latitude |-> e.latitude, longitude |-> e.longitude], db.nextId)

\* Variant of create_log_tail: the row is inserted and no constraint of the
\* table is checked.
create_log_tail_no_constraint(db, student_id, e) ==
    [res |-> Ok(db.nextId),
     db |-> [db EXCEPT !.rows = @ \cup {RowFromArgs(db, student_id, e)},
                       !.nextId = @ + 1]]

\* Variant of create_log_tail: the row is written first and the checks run
\* afterwards, their error leaving the row behind.
create_log_tail_write_first(db, student_id, e) ==
    LET p == get_placement_with_geofence(db, e.placement_id)
    IN  [res |-> IF p.err # "ok" THEN Raise(p.err)
                 ELSE IF ~validate_coordinates(e.latitude, e.longitude)
                 THEN Raise(InvalidCoordinate)
                 ELSE Ok(db.nextId),
         db |-> [db EXCEPT !.rows = @ \cup {RowFromArgs(db, student_id, e)},
                           !.nextId = @ + 1]]

\* LogService.create_log after the duplicate check (log.py 107-150).
create_log_tail(db, student_id, e) ==
    LET p == get_placement_with_geofence(db, e.placement_id)
        placement == PlacementRow(e.placement_id)
        w == calculate_week_number(e.log_date, placement)
        loc == get_location_status(e.latitude, e.longitude, placement.geofence)
    IN  IF p.err # "ok" THEN [res |-> Raise(p.err), db |-> db]
        ELSE IF ~p.found THEN [res |-> Raise(PlacementNotFound), db |-> db]
        ELSE IF ~validate_coordinates(e.latitude, e.longitude)
        THEN [res |-> Raise(InvalidCoordinate), db |-> db]
        ELSE IF w.err # "ok" THEN [res |-> Raise(w.err), db |-> db]
        ELSE IF w.val < 1 \/ w.val > ProgramWeeks
        THEN [res |-> Raise(OutOfProgramRange), db |-> db]
        ELSE IF loc.err # "ok" THEN [res |-> Raise(loc.err), db |-> db]
        ELSE create(db, LogData(student_id, e, w.val, loc.val))

\* Variant of create_log: a replay overwrites the description of the entry
\* it finds.
create_log_upsert(db, student_id, e) ==
    LET existing == get_by_client_uuid(db, e.client_uuid)
    IN  IF e.client_uuid # None /\ existing.err # "ok"
        THEN [res |-> Raise(existing.err), db |-> db]
        ELSE IF e.client_uuid # None /\ existing.id # NoId
        THEN [res |-> Ok(existing.id),
              db |-> [db EXCEPT !.rows =
                        {IF r.id = existing.id
                         THEN [r EXCEPT !.activity_description = e.activities]
                         ELSE r : r \in db.rows}]]
        ELSE create_log_tail(db, student_id, e)

\* LogService.create_log: the duplicate check (log.py 101-105), then the rest.
create_log(db, student_id, e) ==
    LET existing == get_by_client_uuid(db, e.client_uuid)
    IN  IF e.client_uuid # None /\ existing.err # "ok"
        THEN [res |-> Raise(existing.err), db |-> db]
        ELSE IF e.client_uuid # None /\ existing.id # NoId
        THEN [res |-> Ok(existing.id), db |-> db]
        ELSE create_log_tail(db, student_id, e)

\* BaseRepository.update: setattr for every key the instance has, then flush.
SetAttrs(row, data) ==
    [k \in DOMAIN row |->
        IF k \in DOMAIN data /\ k \in DailyLogAttrs THEN data[k] ELSE row[k]]

update(db, id, data) ==
    LET instance == get_by_id(db, id)
        old == RowOf(db.rows, id)
        new == SetAttrs(old, data)
    IN  IF instance.err # "ok" THEN [res |-> Raise(instance.err), db |-> db]
        ELSE IF instance.id = NoId THEN [res |-> Ok(NoId), db |-> db]
        ELSE IF Violates(new, db.rows \ {old})
        THEN [res |-> Raise("IntegrityError"), db |-> FailedFlush(db)]
        ELSE [res |-> Ok(id),
              db |-> [db EXCEPT !.rows = (@ \ {old}) \cup {new}]]

\* BaseRepository.delete: soft only when the instance has soft_delete.
delete(db, id, soft) ==
    LET instance == get_by_id(db, id)
        old == RowOf(db.rows, id)
    IN  IF instance.err # "ok" THEN [res |-> Raise(instance.err), db |-> db]
        ELSE IF instance.id = NoId THEN [res |-> Ok(NoId), db |-> db]
        ELSE IF soft /\ "soft_delete" \in DailyLogAttrs
        THEN [res |-> Ok(id),
              db |-> [db EXCEPT !.rows = (@ \ {old})
                                   \cup {SetAttrs(old, [deleted_at |-> "utcnow"])}]]
        ELSE [res |-> Ok(id), db |-> [db EXCEPT !.rows = @ \ {old}]]

\* LogService.update_log
update_log(db, log_id, updates) ==
    LET log == get_by_id(db, log_id)
    IN  IF log.err # "ok" THEN [res |-> Raise(log.err), db |-> db]
        ELSE IF log.id = NoId THEN [res |-> Ok(NoId), db |-> db]
        ELSE IF RowOf(db.rows, log_id).status = VERIFIED
        THEN [res |-> Raise("ValueError: Cannot update a verified log"),
              db |-> db]
        ELSE update(db, log_id, updates)

\* LogService.delete_log
delete_log(db, log_id) ==
    LET log == get_by_id(db, log_id)
    IN  IF log.err # "ok" THEN [res |-> Raise(log.err), db |-> db]
        ELSE IF log.id = NoId THEN [res |-> Ok(NoId), db |-> db]
        ELSE IF RowOf(db.rows, log_id).status = VERIFIED
        THEN [res |-> Raise("ValueError: Cannot delete a verified log"),
              db |-> db]
        ELSE delete(db, log_id, TRUE)

\* ----------------------------------------------------------- ReviewService
verify_log(db, log_id, supervisor_id, feedback) ==
    LET log == get_by_id(db, log_id)
    IN  IF log.err # "ok" THEN [res |-> Raise(log.err), db |-> db]
        ELSE IF log.id = NoId THEN [res |-> Ok(NoId), db |-> db]
        ELSE IF RowOf(db.rows, log_id).status = VERIFIED
        THEN [res |-> Raise("ValueError: Log is already verified"), db |-> db]
        ELSE IF RowOf(db.rows, log_id).status = FLAGGED
        THEN [res |-> Raise("ValueError: Cannot verify a flagged log"),
              db |-> db]
        ELSE update(db, log_id,
                    [status |-> VERIFIED, reviewed_by |-> supervisor_id,
                     reviewed_at |-> "utcnow", supervisor_feedback |-> feedback])

flag_log(db, log_id, supervisor_id, reason) ==
    LET log == get_by_id(db, log_id)
    IN  IF log.err # "ok" THEN [res |-> Raise(log.err), db |-> db]
        ELSE IF log.id = NoId THEN [res |-> Ok(NoId), db |-> db]
        ELSE IF RowOf(db.rows, log_id).status = VERIFIED
        THEN [res |-> Raise("ValueError: Cannot flag a verified log"),
              db |-> db]
        ELSE update(db, log_id,
                    [status |-> FLAGGED, reviewed_by |-> supervisor_id,
                     reviewed_at |-> "utcnow", supervisor_feedback |-> reason])

\* Variant of unflag_log: the review stamp is renewed, the status is left.
unflag_log_keeps_status(db, log_id, supervisor_id) ==
    LET log == get_by_id(db, log_id)
    IN  IF log.err # "ok" THEN [res |-> Raise(log.err), db |-> db]
        ELSE IF log.id = NoId THEN [res |-> Ok(NoId), db |-> db]
        ELSE update(db, log_id,
                    [reviewed_by |-> supervisor_id, reviewed_at |-> "utcnow"])

unflag_log(db, log_id, supervisor_id) ==
    LET log == get_by_id(db, log_id)
    IN  IF log.err # "ok" THEN [res |-> Raise(log.err), db |-> db]
        ELSE IF log.id = NoId THEN [res |-> Ok(NoId), db |-> db]
        ELSE update(db, log_id,
                    [status |-> PENDING_REVIEW, reviewed_by |-> supervisor_id,
                     reviewed_at |-> "utcnow"])

\* Variant of bulk_verify_from: the loop ends at the first id that is rejected.
RECURSIVE bulk_verify_from_abort(_, _, _, _, _)
bulk_verify_from_abort(acc, log_ids, i, supervisor_id, feedback) ==
    IF i > Len(log_ids) THEN acc
    ELSE LET r == verify_log(acc.db, log_ids[i], supervisor_id, feedback)
         IN  IF r.res.err = "ok"
             THEN bulk_verify_from_abort(
                      [acc EXCEPT !.db = r.db, !.verified = @ + 1],
                      log_ids, i + 1, supervisor_id, feedback)
             ELSE [acc EXCEPT !.db = r.db, !.failed = @ + 1,
                              !.errors = Append(@, <<log_ids[i], r.res.err>>)]

\* ReviewService.bulk_verify_logs: the loop over log_ids, from position i.
RECURSIVE bulk_verify_from(_, _, _, _, _)
bulk_verify_from(acc, log_ids, i, supervisor_id, feedback) ==
    IF i > Len(log_ids) THEN acc
    ELSE LET r == verify_log(acc.db, log_ids[i], supervisor_id, feedback)
         IN  bulk_verify_from(
                 IF r.res.err = "ok"
                 THEN [acc EXCEPT !.db = r.db, !.verified = @ + 1]
                 ELSE [acc EXCEPT !.db = r.db, !.failed = @ + 1,
                                  !.errors = Append(@, <<log_ids[i], r.res.err>>)],
                 log_ids, i + 1, supervisor_id, feedback)

bulk_verify_logs(db, log_ids, supervisor_id, feedback) ==
    bulk_verify_from([db |-> db, verified |-> 0, failed |-> 0, errors |-> <<>>],
                     log_ids, 1, supervisor_id, feedback)

\* ------------------------------------------------------------- SyncService
\* A log_date of an offline entry is a date or a string; date.fromisoformat
\* turns a well-formed string into its date and raises on any other.
IsStr(d) == d.str
fromisoformat(d) ==
    IF d.valid THEN [err |-> "ok", val |-> d.day]
    ELSE [err |-> "ValueError: Invalid isoformat string", val |-> 0]

\* The first key of log_data[...] that is absent, in evaluation order.
FirstMissingKey(log_data) ==
    IF "placement_id" \notin DOMAIN log_data THEN "placement_id"
    ELSE IF "activities" \notin DOMAIN log_data THEN "activities"
    ELSE IF "latitude" \notin DOMAIN log_data THEN "latitude"
    ELSE IF "longitude" \notin DOMAIN log_data THEN "longitude"
    ELSE None

\* The token an error message of sync_logs names (sync.py 120).
ErrorTag(log_data) == Field(log_data, "client_uuid", "unknown")

\* The create_log call of sync.py 104-114.
SyncCreateArgs(log_data, day) ==
    [client_uuid |-> Field(log_data, "client_uuid", None),
     placement_id |-> log_data.placement_id, log_date |-> day,
     activities |-> log_data.activities, latitude |-> log_data.latitude,
     longitude |-> log_data.longitude]

\* Variant of sync_one: no lookup of the token before create_log is called.
sync_one_no_skip(acc, student_id, log_data) ==
    LET parsed == IF IsStr(log_data.log_date)
                  THEN fromisoformat(log_data.log_date)
                  ELSE [err |-> "ok", val |-> log_data.log_date.day]
        made == create_log(acc.db, student_id,
                           SyncCreateArgs(log_data, parsed.val))
        Failed(e, db) ==
            [acc EXCEPT !.db = db, !.failed = @ + 1,
                        !.errors = Append(@, <<ErrorTag(log_data), e>>)]
    IN  IF parsed.err # "ok" THEN Failed(parsed.err, acc.db)
        ELSE IF FirstMissingKey(log_data) # None
        THEN Failed("KeyError", acc.db)
        ELSE IF made.res.err # "ok" THEN Failed(made.res.err, made.db)
        ELSE [acc EXCEPT !.db = made.db, !.synced = @ + 1]

\* Variant of sync_one: the message of a failure is put in front of the list.
sync_one_prepend(acc, student_id, log_data) ==
    LET client_uuid == Field(log_data, "client_uuid", None)
        existing == get_by_client_uuid(acc.db, client_uuid)
        parsed == IF IsStr(log_data.log_date)
                  THEN fromisoformat(log_data.log_date)
                  ELSE [err |-> "ok", val |-> log_data.log_date.day]
        made == create_log(acc.db, student_id,
                           SyncCreateArgs(log_data, parsed.val))
        Failed(e, db) ==
            [acc EXCEPT !.db = db, !.failed = @ + 1,
                        !.errors = <<<<ErrorTag(log_data), e>>>> \o @]
    IN  IF client_uuid # None /\ existing.err # "ok"
        THEN Failed(existing.err, acc.db)
        ELSE IF client_uuid # None /\ existing.id # NoId
        THEN [acc EXCEPT !.skipped = @ + 1]
        ELSE IF parsed.err # "ok" THEN Failed(parsed.err, acc.db)
        ELSE IF FirstMissingKey(log_data) # None
        THEN Failed("KeyError", acc.db)
        ELSE IF made.res.err # "ok" THEN Failed(made.res.err, made.db)
        ELSE [acc EXCEPT !.db = made.db, !.synced = @ + 1]

\* One iteration of the loop of sync_logs (sync.py 85-120).
sync_one(acc, student_id, log_data) ==
    LET client_uuid == Field(log_data, "client_uuid", None)
        existing == get_by_client_uuid(acc.db, client_uuid)
        parsed == IF IsStr(log_data.log_date)
                  THEN fromisoformat(log_data.log_date)
                  ELSE [err |-> "ok", val |-> log_data.log_date.day]
        made == create_log(acc.db, student_id,
                           SyncCreateArgs(log_data, parsed.val))
        Failed(e, db) ==
            [acc EXCEPT !.db = db, !.failed = @ + 1,
                        !.errors = Append(@, <<ErrorTag(log_data), e>>)]
    IN  IF client_uuid # None /\ existing.err # "ok"
        THEN Failed(existing.err, acc.db)
        ELSE IF client_uuid # None /\ existing.id # NoId
        THEN [acc EXCEPT !.skipped = @ + 1]
        ELSE IF parsed.err # "ok" THEN Failed(parsed.err, acc.db)
        ELSE IF FirstMissingKey(log_data) # None
        THEN Failed("KeyError", acc.db)
        ELSE IF made.res.err # "ok" THEN Failed(made.res.err, made.db)
        ELSE [acc EXCEPT !.db = made.db, !.synced = @ + 1]

RECURSIVE sync_from(_, _, _, _)
sync_from(acc, student_id, offline_logs, i) ==
    IF i > Len(offline_logs) THEN acc
    ELSE sync_from(sync_one(acc, student_id, offline_logs[i]),
                   student_id, offline_logs, i + 1)

\* SyncService.sync_logs
sync_logs(db, student_id, offline_logs) ==
    sync_from([db |-> db, synced |-> 0, skipped |-> 0, failed |-> 0,
               errors |-> <<>>],
              student_id, offline_logs, 1)

\* ------------------------------------------------------------------ inputs
\* Day offsets from the programme start around both ends of the 25 weeks.
LastDay == ProgramWeeks * DaysPerWeek - 1
CreateShapes ==
    {[placement_id |-> "p1", log_date |-> 0, latitude |-> 6, longitude |-> 3],
     [placement_id |-> "p1", log_date |-> LastDay, latitude |-> 6, longitude |-> 3],
     [placement_id |-> "p1", log_date |-> 0 - 1, latitude |-> 6, longitude |-> 3],
     [placement_id |-> "p1", log_date |-> LastDay + 1, latitude |-> 6, longitude |-> 3],
     [placement_id |-> "px", log_date |-> 0, latitude |-> 6, longitude |-> 3],
     [placement_id |-> "p1", log_date |-> 0, latitude |-> 91, longitude |-> 3],
     [placement_id |-> "px", log_date |-> 0, latitude |-> 91, longitude |-> 3],
     [placement_id |-> "p1", log_date |-> LastDay + 1, latitude |-> 6, longitude |-> 181]}

CreateArgs(t, c) ==
    [client_uuid |-> t, placement_id |-> c.placement_id,
     log_date |-> c.log_date, activities |-> "b", latitude |-> c.latitude,
     longitude |-> c.longitude]

CreateInputs ==
    {CreateArgs(t, c) : t \in {SeedToken(1), Fresh1, None}, c \in CreateShapes}

IsoDate(day) == [str |-> TRUE, valid |-> TRUE, day |-> day]
BadDate == [str |-> TRUE, valid |-> FALSE, day |-> 0]

\* Offline entries: well-formed ones for a stored token, for tokens not
\* stored, for a token of None (as the form route builds its entry) and
\* without the client_uuid key, and malformed ones.
GoodEntry(t) ==
    [client_uuid |-> t, placement_id |-> "p1", log_date |-> IsoDate(0),
     activities |-> "b", latitude |-> 6, longitude |-> 3]
KeylessEntry ==
    [placement_id |-> "p1", log_date |-> IsoDate(0), activities |-> "b",
     latitude |-> 6, longitude |-> 3]
EntryPool ==
    {GoodEntry(t) : t \in {SeedToken(1), Fresh1, None}}
    \cup {KeylessEntry}
    \cup {[GoodEntry(Fresh2) EXCEPT !.log_date = BadDate]}

Batches == UNION {[1..n -> EntryPool] : n \in 1..MaxBatch}

LogIds == 1..(MaxSeed + 1)
IdLists == UNION {[1..n -> LogIds] : n \in 1..MaxBatch}

\* Dictionaries a caller hands to update_log.
Updates ==
    {[activity_description |-> "c", log_date |-> 7, latitude |-> 5],
     [activities |-> "c"],
     [status |-> VERIFIED]}

\* ------------------------------------------------------------------- state
VARIABLES
    logs,      \* the rows of daily_logs
    nextId,    \* the next id a new row gets
    last,      \* the call that has just returned (op = "none": none pending)
    wk,        \* the concurrent workers: position and arguments of their call
    firstId,   \* history: <<student, token, id>> of each first successful create_log
    frozen,    \* history: <<id, content>> of each row when it became verified
    trail      \* history: <<id, stage>> of rows unflagged from flagged, then verified

vars == <<logs, nextId, last, wk, firstId, frozen, trail>>

Workers == {"w1", "w2"}

\* Rows the table may hold when the services start: row i carries its own
\* token or the token of row 1, and belongs to either student.
SeedOptions(i) ==
    {Row(i, t, s, 0, 1, "a", 6, 3, WITHIN, PENDING_REVIEW) :
        t \in {SeedToken(i), SeedToken(1)},
        s \in (IF i = 1 THEN {"s1"} ELSE Students)}

\* The constraints the table declares, on a whole table.
TableConstraints(rows) ==
    /\ \A r1, r2 \in rows : r1.id = r2.id => r1 = r2
    /\ \A r \in rows : ~Violates(r, rows \ {r})

SeedStores ==
    {S \in SUBSET (UNION {SeedOptions(i) : i \in 1..MaxSeed}) :
        TableConstraints(S)}

NoCall ==
    [op |-> "none", student |-> None, arg |-> None, id |-> NoId,
     err |-> "ok", rid |-> NoId, synced |-> 0, skipped |-> 0, failed |-> 0,
     errors |-> <<>>, before |-> {}, again |-> FALSE, first |-> <<>>,
     val |-> None]

Call(op, student, arg, id, res, before) ==
    [NoCall EXCEPT !.op = op, !.student = student, !.arg = arg, !.id = id,
                   !.err = res.err, !.rid = res.id, !.before = before]

Idle == last.op = "none"

\* student: the user the request is made for; log_id, log, updates: the entry a
\* review or update request names, the instance its session has loaded, and
\* the text or dictionary it carries.
IdleWorker ==
    [pc |-> "idle", op |-> "none", student |-> None, batch |-> <<>>, i |-> 0,
     day |-> 0, passed |-> {}, err |-> "ok", rid |-> NoId, synced |-> 0,
     skipped |-> 0, failed |-> 0, tx |-> {}, ok |-> TRUE,
     log_id |-> NoId, log |-> NoObject, updates |-> NoObject]

Init ==
    /\ logs \in SeedStores
    /\ nextId = MaxSeed + 1
    /\ last = NoCall
    /\ wk = [w \in Workers |-> IdleWorker]
    /\ firstId = {}
    /\ frozen = {}
    /\ trail = {}

\* ------------------------------------------------------------- histories
Content(r) ==
    [log_date |-> r.log_date, week_number |-> r.week_number,
     activity_description |-> r.activity_description,
     latitude |-> r.latitude, longitude |-> r.longitude]

Freeze(rows) ==
    frozen \cup {<<r.id, Content(r)>> : r \in
                    {q \in rows : q.status = VERIFIED
                                  /\ ~\E f \in frozen : f[1] = q.id}}

\* h: whether the step keeps the histories (they never influence a call).
Histories(h, rows, first) ==
    /\ frozen' = IF h THEN Freeze(rows) ELSE frozen
    /\ firstId' = IF h THEN firstId \cup first ELSE firstId

StatusOf(rows, id) ==
    IF \E r \in rows : r.id = id THEN RowOf(rows, id).status ELSE None

\* The stage a row is in: "unflagged" once unflag_log has taken it from flagged
\* to pending, "reverified" once verify_log has then verified it; any other
\* change of its status ends the stage.
Trails(h, op, id, rows) ==
    trail' =
        IF ~h THEN trail
        ELSE {t \in trail : /\ StatusOf(rows, t[1]) = StatusOf(logs, t[1])
                            /\ ~(op = "verify_log" /\ t = <<id, "unflagged">>)}
             \cup (IF /\ op = "unflag_log"
                      /\ StatusOf(logs, id) = FLAGGED
                      /\ StatusOf(rows, id) = PENDING_REVIEW
                   THEN {<<id, "unflagged">>} ELSE {})
             \cup (IF /\ op = "verify_log"
                      /\ <<id, "unflagged">> \in trail
                   THEN IF StatusOf(rows, id) = VERIFIED
                        THEN {<<id, "reverified">>}
                        ELSE {<<id, "unflagged">>}
                   ELSE {})

\* ----------------------------------------------------------------- actions
\* New calls that may add rows are issued while the table is below its cap.
CanGrow == nextId <= MaxSeed + MaxNew

\* One create_log call, run to completion.
CreateLog(h) ==
    \E s \in Students, e \in CreateInputs :
        LET r == create_log(Session(logs, nextId), s, e)
        IN  /\ Idle
            /\ CanGrow
            /\ logs' = r.db.rows
            /\ nextId' = r.db.nextId
            /\ last' = Call("create_log", s, e, NoId, r.res, logs)
            /\ Histories(h, r.db.rows,
                   IF e.client_uuid # None /\ r.res.err = "ok"
                      /\ ~\E f \in firstId : f[1] = s /\ f[2] = e.client_uuid
                   THEN {<<s, e.client_uuid, r.res.id>>} ELSE {})
            /\ Trails(h, "other", NoId, r.db.rows)
            /\ UNCHANGED wk

SyncResult(s, b, r, before) ==
    [Call("sync_logs", s, b, NoId, Ok(NoId), before)
        EXCEPT !.synced = r.synced, !.skipped = r.skipped,
               !.failed = r.failed, !.errors = r.errors]

\* One sync_logs call, run to completion.
SyncLogs(h) ==
    \E s \in Students, b \in Batches :
        LET r == sync_logs(Session(logs, nextId), s, b)
        IN  /\ Idle
            /\ CanGrow
            /\ logs' = r.db.rows
            /\ nextId' = r.db.nextId
            /\ last' = SyncResult(s, b, r, logs)
            /\ Histories(h, r.db.rows, {})
            /\ Trails(h, "other", NoId, r.db.rows)
            /\ UNCHANGED wk

\* The same student reconciles the same batch again, right after the first run.
SyncAgain(h) ==
    LET r == sync_logs(Session(logs, nextId), last.student, last.arg)
    IN  /\ last.op = "sync_logs"
        /\ ~last.again
        /\ logs' = r.db.rows
        /\ nextId' = r.db.nextId
        /\ last' = [SyncResult(last.student, last.arg, r, logs)
                       EXCEPT !.again = TRUE,
                              !.first = <<last.synced, last.skipped, last.failed>>]
        /\ Histories(h, r.db.rows, {})
        /\ Trails(h, "other", NoId, r.db.rows)
        /\ UNCHANGED wk

Review(h, op, r, id) ==
    /\ Idle
    /\ logs' = r.db.rows
    /\ nextId' = r.db.nextId
    /\ last' = Call(op, None, None, id, r.res, logs)
    /\ Histories(h, r.db.rows, {})
    /\ Trails(h, op, id, r.db.rows)
    /\ UNCHANGED wk

VerifyLog(h) ==
    \E id \in LogIds, sup \in Supervisors, feedback \in {None, "fb"} :
        Review(h, "verify_log",
               verify_log(Session(logs, nextId), id, sup, feedback), id)

FlagLog(h) ==
    \E id \in LogIds, sup \in Supervisors :
        Review(h, "flag_log", flag_log(Session(logs, nextId), id, sup, "why"), id)

UnflagLog(h) ==
    \E id \in LogIds, sup \in Supervisors :
        Review(h, "unflag_log", unflag_log(Session(logs, nextId), id, sup), id)

BulkVerifyLogs(h) ==
    \E ids \in IdLists, sup \in Supervisors :
        LET r == bulk_verify_logs(Session(logs, nextId), ids, sup, None)
        IN  /\ Idle
            /\ logs' = r.db.rows
            /\ nextId' = r.db.nextId
            /\ last' = [Call("bulk_verify_logs", None, ids, NoId, Ok(NoId), logs)
                           EXCEPT !.synced = r.verified, !.failed = r.failed,
                                  !.errors = r.errors]
            /\ Histories(h, r.db.rows, {})
            /\ Trails(h, "other", NoId, r.db.rows)
            /\ UNCHANGED wk

UpdateLog(h) ==
    \E id \in LogIds, u \in Updates :
        Review(h, "update_log", update_log(Session(logs, nextId), id, u), id)

DeleteLog(h) ==
    \E id \in LogIds :
        Review(h, "delete_log", delete_log(Session(logs, nextId), id), id)

\* The caller takes the result: the next call can be issued.
Return ==
    /\ ~Idle
    /\ last' = NoCall
    /\ UNCHANGED <<logs, nextId, wk, firstId, frozen, trail>>

Next ==
    \/ CreateLog(FALSE)
    \/ SyncLogs(FALSE)
    \/ SyncAgain(FALSE)
    \/ VerifyLog(FALSE)
    \/ FlagLog(FALSE)
    \/ UnflagLog(FALSE)
    \/ BulkVerifyLogs(FALSE)
    \/ UpdateLog(FALSE)
    \/ DeleteLog(FALSE)
    \/ Return

\* Calls issued one after another, each run to completion.
Spec == Init /\ [][Next]_vars

\* The same calls with the histories kept.
NextH ==
    \/ CreateLog(TRUE)
    \/ VerifyLog(TRUE)
    \/ FlagLog(TRUE)
    \/ UnflagLog(TRUE)
    \/ UpdateLog(TRUE)
    \/ DeleteLog(TRUE)
    \/ Return

SpecHistory == Init /\ [][NextH]_vars

\* The review desk: a table of up to MaxSeed + 1 pending rows of one student,
\* each with its own token and its own date (row i in week i), and the calls
\* that act on stored rows.
ReviewStores ==
    SUBSET {Row(i, SeedToken(i), "s1", DaysPerWeek * (i - 1), i, "a", 6, 3,
                WITHIN, PENDING_REVIEW) : i \in LogIds}

InitReview ==
    /\ logs \in ReviewStores
    /\ nextId = MaxSeed + 2
    /\ last = NoCall
    /\ wk = [w \in Workers |-> IdleWorker]
    /\ firstId = {}
    /\ frozen = {}
    /\ trail = {}

NextReview ==
    \/ VerifyLog(FALSE)
    \/ FlagLog(FALSE)
    \/ UnflagLog(FALSE)
    \/ BulkVerifyLogs(FALSE)
    \/ UpdateLog(FALSE)
    \/ DeleteLog(FALSE)
    \/ Return

SpecReview == InitReview /\ [][NextReview]_vars

\* ------------------------------------------------------ concurrent workers
\* Each worker runs one request on its own session; the steps of a request
\* are its database operations, and the workers' steps interleave.
ConcShapes ==
    {[placement_id |-> "p1", log_date |-> 0, latitude |-> 6, longitude |-> 3],
     [placement_id |-> "px", log_date |-> 0, latitude |-> 6, longitude |-> 3]}
ConcInputs ==
    {CreateArgs(t, c) : t \in {SeedToken(1), Fresh1}, c \in ConcShapes}
ConcPool == {GoodEntry(t) : t \in {SeedToken(1), Fresh1}}
ConcBatches == UNION {[1..n -> ConcPool] : n \in 1..MaxBatch}

SessionOf(w) ==
    [rows |-> logs, tx |-> wk[w].tx, ok |-> wk[w].ok, nextId |-> nextId]

\* The arguments of the create_log call worker w is in.
ArgsOf(w) ==
    IF wk[w].op = "create_log" THEN wk[w].batch[1]
    ELSE SyncCreateArgs(wk[w].batch[wk[w].i], wk[w].day)

\* Where a worker goes once entry i of its call is settled.
Advance(rec) ==
    IF rec.op = "sync_logs" /\ rec.i < Len(rec.batch)
    THEN [rec EXCEPT !.i = @ + 1, !.pc = "sync_check"]
    ELSE [rec EXCEPT !.pc = "done"]

\* How create_log ending with res settles entry i.
Settle(rec, res) ==
    Advance(IF rec.op = "create_log"
            THEN [rec EXCEPT !.err = res.err, !.rid = res.id]
            ELSE IF res.err = "ok" THEN [rec EXCEPT !.synced = @ + 1]
            ELSE [rec EXCEPT !.failed = @ + 1])

WCallCreate(w) ==
    \E s \in Students, e \in ConcInputs :
        /\ wk[w].pc = "idle"
        /\ CanGrow
        /\ wk' = [wk EXCEPT ![w] = [IdleWorker EXCEPT !.pc = "check",
                     !.op = "create_log", !.student = s, !.batch = <<e>>,
                     !.i = 1]]
        /\ UNCHANGED <<logs, nextId, last, firstId, frozen, trail>>

WCallSync(w) ==
    \E s \in Students, b \in ConcBatches :
        /\ wk[w].pc = "idle"
        /\ CanGrow
        /\ wk' = [wk EXCEPT ![w] = [IdleWorker EXCEPT !.pc = "sync_check",
                     !.op = "sync_logs", !.student = s, !.batch = b, !.i = 1]]
        /\ UNCHANGED <<logs, nextId, last, firstId, frozen, trail>>

\* sync.py 87-101 for entry i: the lookup by token, then the date.
WSyncCheck(w) ==
    LET rec == wk[w]
        log_data == rec.batch[rec.i]
        client_uuid == Field(log_data, "client_uuid", None)
        existing == get_by_client_uuid(SessionOf(w), client_uuid)
        parsed == IF IsStr(log_data.log_date)
                  THEN fromisoformat(log_data.log_date)
                  ELSE [err |-> "ok", val |-> log_data.log_date.day]
    IN  /\ rec.pc = "sync_check"
        /\ wk' = [wk EXCEPT ![w] =
                    IF client_uuid # None /\ existing.err # "ok"
                    THEN Advance([rec EXCEPT !.failed = @ + 1])
                    ELSE IF client_uuid # None /\ existing.id # NoId
                    THEN Advance([rec EXCEPT !.skipped = @ + 1])
                    ELSE IF parsed.err # "ok" \/ FirstMissingKey(log_data) # None
                    THEN Advance([rec EXCEPT !.failed = @ + 1])
                    ELSE [rec EXCEPT !.pc = "check", !.day = parsed.val]]
        /\ UNCHANGED <<logs, nextId, last, firstId, frozen, trail>>

\* log.py 101-105: the duplicate check of create_log.
WCheck(w) ==
    LET rec == wk[w]
        e == ArgsOf(w)
        existing == get_by_client_uuid(SessionOf(w), e.client_uuid)
    IN  /\ rec.pc = "check"
        /\ wk' = [wk EXCEPT ![w] =
                    IF e.client_uuid # None /\ existing.err # "ok"
                    THEN Settle(rec, Raise(existing.err))
                    ELSE IF e.client_uuid # None /\ existing.id # NoId
                    THEN Settle(rec, Ok(existing.id))
                    ELSE [rec EXCEPT !.pc = "tail", !.passed = @ \cup {rec.i}]]
        /\ UNCHANGED <<logs, nextId, last, firstId, frozen, trail>>

\* log.py 107-150: the rest of create_log, the insert included.
WTail(w) ==
    LET rec == wk[w]
        r == create_log_tail(SessionOf(w), rec.student, ArgsOf(w))
    IN  /\ rec.pc = "tail"
        /\ logs' = r.db.rows
        /\ nextId' = r.db.nextId
        /\ wk' = [wk EXCEPT ![w] =
                    Settle([rec EXCEPT !.tx = r.db.tx, !.ok = r.db.ok], r.res)]
        /\ UNCHANGED <<last, firstId, frozen, trail>>

\* The request ends: its session commits and closes.
WReturn(w) ==
    /\ wk[w].pc = "done"
    /\ wk' = [wk EXCEPT ![w] = IdleWorker]
    /\ UNCHANGED <<logs, nextId, last, firstId, frozen, trail>>

NextConc ==
    \E w \in Workers :
        \/ WCallCreate(w)
        \/ WCallSync(w)
        \/ WSyncCheck(w)
        \/ WCheck(w)
        \/ WTail(w)
        \/ WReturn(w)

\* create_log and sync_logs requests of two workers, interleaved.
SpecConc == Init /\ [][NextConc]_vars

\* ------------------------------------------------- concurrent review calls
\* verify_log, flag_log and update_log requests of two workers.  A request
\* loads the entry into its session and checks its status (review.py 72-83,
\* 121-128, log.py 232-240); BaseRepository.update then finds the loaded
\* instance again, sets the attributes on it and flushes: the UPDATE carries
\* the attributes whose value differs from the loaded one and is applied to
\* the row as the table holds it then.  No call locks the row.
RaceUpdates == {[activity_description |-> "c", log_date |-> 7, latitude |-> 5]}

\* The call worker record rec is in, run on session db.
RunCall(rec, db) ==
    IF rec.op = "verify_log"
    THEN verify_log(db, rec.log_id, rec.student, rec.updates)
    ELSE IF rec.op = "flag_log"
    THEN flag_log(db, rec.log_id, rec.student, rec.updates)
    ELSE update_log(db, rec.log_id, rec.updates)

WCallReview(w) ==
    \E id \in LogIds, sup \in Supervisors, op \in {"verify_log", "flag_log"} :
        /\ wk[w].pc = "idle"
        /\ wk' = [wk EXCEPT ![w] = [IdleWorker EXCEPT !.pc = "load",
                     !.op = op, !.student = sup, !.log_id = id,
                     !.updates = IF op = "flag_log" THEN "why" ELSE None]]
        /\ UNCHANGED <<logs, nextId, last, firstId, frozen, trail>>

WCallUpdate(w) ==
    \E id \in LogIds, u \in RaceUpdates :
        /\ wk[w].pc = "idle"
        /\ wk' = [wk EXCEPT ![w] = [IdleWorker EXCEPT !.pc = "load",
                     !.op = "update_log", !.log_id = id, !.updates = u]]
        /\ UNCHANGED <<logs, nextId, last, firstId, frozen, trail>>

\* get_by_id and the status checks: the call ends here when the entry is
\* missing or its status is refused, else it goes on to the update.
WLoad(w) ==
    LET rec == wk[w]
        r == RunCall(rec, SessionOf(w))
    IN  /\ rec.pc = "load"
        /\ wk' = [wk EXCEPT ![w] =
                    IF r.res.err # "ok" \/ r.res.id = NoId
                    THEN [rec EXCEPT !.pc = "done", !.err = r.res.err,
                                     !.rid = r.res.id]
                    ELSE [rec EXCEPT !.pc = "flush",
                                     !.log = RowOf(logs, rec.log_id)]]
        /\ UNCHANGED <<logs, nextId, last, firstId, frozen, trail>>

\* The attributes of the loaded instance the call has given another value.
Dirty(rec) ==
    LET r == RunCall(rec, Session({rec.log}, nextId))
        new == RowOf(r.db.rows, rec.log_id)
    IN  [k \in {a \in DOMAIN rec.log : new[a] # rec.log[a]} |-> new[k]]

\* setattr on the loaded instance, flush and commit.
WFlush(w) ==
    LET rec == wk[w]
        cur == RowOf(logs, rec.log_id)
        new == [k \in DOMAIN cur |->
                   IF k \in DOMAIN Dirty(rec) THEN Dirty(rec)[k] ELSE cur[k]]
    IN  /\ rec.pc = "flush"
        /\ logs' = (logs \ {cur}) \cup {new}
        /\ wk' = [wk EXCEPT ![w] = [rec EXCEPT !.pc = "done",
                                                !.rid = rec.log_id]]
        /\ UNCHANGED <<nextId, last, firstId, frozen, trail>>

NextRace ==
    \E w \in Workers :
        \/ WCallReview(w)
        \/ WCallUpdate(w)
        \/ WLoad(w)
        \/ WFlush(w)
        \/ WReturn(w)

\* Review and update requests of two workers, interleaved.
SpecRace == InitReview /\ [][NextRace]_vars

\* ------------------------------------------------------- the pure functions
\* Dates around the program start; placements that carry a start date (two
\* starts) and the placement as the table maps it.
UnitDays == (0 - MaxOffset)..MaxOffset
UnitPlacements ==
    {[id |-> "p1", start_date |-> d] : d \in {0, 3}} \cup {PlacementRow("p1")}

\* Geofences: none, the geofence as the table maps it, and circles around
\* (6, 3) that carry the centre attributes: radius zero, a site radius, and the
\* distance of the neighbouring grid point and one metre less.
UnitRadii ==
    {0, 500, calculate_distance(7, 3, 6, 3) - 1, calculate_distance(7, 3, 6, 3)}
UnitGeofences ==
    {NoObject, GeofenceRow}
    \cup {[id |-> "g1", center_latitude |-> 6, center_longitude |-> 3,
           radius_meters |-> r] : r \in UnitRadii}

CalculateWeekNumber ==
    \E log_date \in UnitDays, placement \in UnitPlacements :
        LET r == calculate_week_number(log_date, placement)
        IN  /\ Idle
            /\ last' = [NoCall EXCEPT !.op = "calculate_week_number",
                           !.arg = [log_date |-> log_date,
                                    placement |-> placement],
                           !.err = r.err, !.val = r.val]
            /\ UNCHANGED <<logs, nextId, wk, firstId, frozen, trail>>

GetLocationStatus ==
    \E latitude \in GridLat, longitude \in GridLon, geofence \in UnitGeofences :
        LET r == get_location_status(latitude, longitude, geofence)
        IN  /\ Idle
            /\ last' = [NoCall EXCEPT !.op = "get_location_status",
                           !.arg = [latitude |-> latitude,
                                    longitude |-> longitude,
                                    geofence |-> geofence],
                           !.err = r.err, !.val = r.val]
            /\ UNCHANGED <<logs, nextId, wk, firstId, frozen, trail>>

CalculateDistance ==
    \E lat1 \in GridLat, lon1 \in GridLon, lat2 \in GridLat, lon2 \in GridLon :
        /\ Idle
        /\ last' = [NoCall EXCEPT !.op = "calculate_distance",
                       !.arg = [lat1 |-> lat1, lon1 |-> lon1,
                                lat2 |-> lat2, lon2 |-> lon2],
                       !.val = calculate_distance(lat1, lon1, lat2, lon2)]
        /\ UNCHANGED <<logs, nextId, wk, firstId, frozen, trail>>

NextUnit ==
    \/ CalculateWeekNumber
    \/ GetLocationStatus
    \/ CalculateDistance
    \/ Return

\* The helper functions called on their own.
SpecUnit == Init /\ [][NextUnit]_vars

\* ------------------------------------------------------------------ claims
StoredTokens(rows) == {r.client_uuid : r \in rows}
IsCreate == last.op = "create_log"
IsSync == last.op = "sync_logs"
BatchTokens(b) == {Field(b[i], "client_uuid", None) : i \in DOMAIN b}
Malformed(b) == {i \in DOMAIN b : b[i].log_date = BadDate}

\* C1: once a create_log(s, t, ...) has succeeded, every later
\* create_log(s, t, ...) returns the same id and raises no error, and exactly
\* one entry with token t is stored afterwards.
C1_IdempotentCreation ==
    \A f \in firstId :
        (IsCreate /\ last.student = f[1] /\ last.arg.client_uuid = f[2])
            => /\ last.err = "ok"
               /\ last.rid = f[3]
               /\ Cardinality({r \in logs : r.client_uuid = f[2]}) = 1

\* C2: when two workers run create_log with the same (student, token) and both
\* pass the existence check before either inserts, exactly one row with the
\* token is stored and both calls return it without an error.
C2_RaceBothSucceed ==
    \A w1, w2 \in Workers :
        (/\ w1 # w2
         /\ wk[w1].pc = "done" /\ wk[w2].pc = "done"
         /\ wk[w1].op = "create_log" /\ wk[w2].op = "create_log"
         /\ wk[w1].passed # {} /\ wk[w2].passed # {}
         /\ wk[w1].student = wk[w2].student
         /\ wk[w1].batch[1].client_uuid = wk[w2].batch[1].client_uuid)
            => /\ wk[w1].err = "ok" /\ wk[w2].err = "ok"
               /\ wk[w1].rid = wk[w2].rid
               /\ \E r \in logs :
                     /\ r.id = wk[w1].rid
                     /\ r.client_uuid = wk[w1].batch[1].client_uuid
               /\ Cardinality({r \in logs :
                      r.client_uuid = wk[w1].batch[1].client_uuid}) = 1

C4_VerifiedTerminal ==
    [][\A r \in logs : \A q \in logs' :
          (r.status = VERIFIED /\ q.id = r.id) => q.status = VERIFIED]_vars

\* C5: from the moment an entry becomes verified, its date, week number,
\* description and coordinates keep the values they had at verification.
C5_ContentFrozen ==
    \A f \in frozen : \A r \in logs : r.id = f[1] => Content(r) = f[2]

\* C6: a create_log or sync_logs call that finds a stored entry for a token it
\* carries inserts no row with that token and changes no field of the entry.
C6_ReplayIsNoOp ==
    /\ IsCreate =>
          \A t \in StoredTokens(last.before) \cap {last.arg.client_uuid} :
              {r \in logs : r.client_uuid = t}
                  = {r \in last.before : r.client_uuid = t}
    /\ IsSync =>
          \A t \in StoredTokens(last.before) \cap BatchTokens(last.arg) :
              {r \in logs : r.client_uuid = t}
                  = {r \in last.before : r.client_uuid = t}

\* C6 witness: a replay with a different description of a token whose entry
\* has meanwhile been verified or flagged.
C6_ReplayOfReviewed ==
    /\ IsCreate
    /\ last.err = "ok"
    /\ \E r \in last.before :
          /\ r.client_uuid = last.arg.client_uuid
          /\ r.id = last.rid
          /\ r.status \in {VERIFIED, FLAGGED}
          /\ r.activity_description # last.arg.activities

C8_ProgramRangeGate ==
    (/\ IsCreate
     /\ last.arg.client_uuid \notin StoredTokens(last.before)
     /\ last.arg.placement_id \in PlacementIds
     /\ validate_coordinates(last.arg.latitude, last.arg.longitude))
        => IF last.arg.log_date \in 0..LastDay
           THEN /\ last.err = "ok"
                /\ \E r \in logs \ last.before :
                      /\ r.id = last.rid
                      /\ r.week_number \in 1..ProgramWeeks
           ELSE /\ last.err = OutOfProgramRange
                /\ logs = last.before

\* C9: a batch of N entries with distinct tokens, none stored, exactly one of
\* them malformed, reconciles to failed >= 1 and synced = N-1, and the N-1
\* valid entries are stored when the call returns.
C9_PartialFailure ==
    (/\ IsSync
     /\ ~last.again
     /\ None \notin BatchTokens(last.arg)
     /\ Cardinality(BatchTokens(last.arg)) = Len(last.arg)
     /\ BatchTokens(last.arg) \cap StoredTokens(last.before) = {}
     /\ Cardinality(Malformed(last.arg)) = 1)
        => /\ last.failed >= 1
           /\ last.synced = Len(last.arg) - 1
           /\ \A i \in DOMAIN last.arg \ Malformed(last.arg) :
                 last.arg[i].client_uuid \in StoredTokens(logs)

IsBulk == last.op = "bulk_verify_logs"

\* C11: bulk_verify_logs goes through its whole list: every id whose entry is
\* pending before the call is verified after it, whatever happens to the
\* other ids of the list.
C11_BulkNeverAborts ==
    IsBulk => \A i \in DOMAIN last.arg :
                 StatusOf(last.before, last.arg[i]) = PENDING_REVIEW
                     => StatusOf(logs, last.arg[i]) = VERIFIED

\* C11 witness: the first id of the list was rejected (its entry was flagged)
\* and the second, pending before the call, is verified.
C11_VerifiedAfterRejected ==
    /\ IsBulk
    /\ Len(last.arg) = 2
    /\ StatusOf(last.before, last.arg[1]) = FLAGGED
    /\ StatusOf(last.before, last.arg[2]) = PENDING_REVIEW
    /\ StatusOf(logs, last.arg[2]) = VERIFIED
    /\ last.failed = 1

\* C12: bulk_verify_logs returns verified + failed = number of ids, one error
\* message per failure, and a verified count equal to the number of entries
\* the call moved from pending to verified; an id without an entry is a
\* failure.
C12_BulkReportsAccurately ==
    IsBulk =>
        /\ last.synced + last.failed = Len(last.arg)
        /\ Len(last.errors) = last.failed
        /\ last.synced = Cardinality({r \in last.before :
                              /\ r.status = PENDING_REVIEW
                              /\ StatusOf(logs, r.id) = VERIFIED})
        /\ \A i \in DOMAIN last.arg :
              StatusOf(last.before, last.arg[i]) = None
                  => \E j \in DOMAIN last.errors :
                         last.errors[j][1] = last.arg[i]

\* C13: verify_log on a flagged entry is rejected and changes nothing, and no
\* step takes an entry to verified from any status but pending.
C13_VerifiedOnlyFromPending ==
    [][/\ (last'.op = "verify_log"
           /\ StatusOf(last'.before, last'.id) = FLAGGED)
              => (last'.err # "ok" /\ logs' = last'.before)
       /\ \A r \in logs : \A q \in logs' :
             (q.id = r.id /\ q.status = VERIFIED /\ r.status # VERIFIED)
                 => r.status = PENDING_REVIEW]_vars

C15_AuditTrail ==
    (/\ last.op \in {"verify_log", "flag_log", "unflag_log"}
     /\ last.err = "ok"
     /\ last.rid # NoId)
        => LET r == RowOf(logs, last.id)
           IN  /\ r.reviewed_at # None
               /\ r.reviewer_id \in Supervisors
               /\ last.op = "flag_log" => r.reviewer_comment = "why"

\* C20: update_log on an entry that is flagged leaves its date, week number,
\* description and coordinates as they were.
C20_FlaggedContentFrozen ==
    (last.op = "update_log" /\ StatusOf(last.before, last.id) = FLAGGED)
        => Content(RowOf(logs, last.id)) = Content(RowOf(last.before, last.id))

\* C16: a create_log call with a resolvable placement, valid coordinates, a
\* date inside the program and no stored token - with a token or without one -
\* succeeds and adds exactly one entry, which is pending and carries the
\* token supplied.
C16_CreationResult ==
    (/\ IsCreate
     /\ last.arg.client_uuid \notin StoredTokens(last.before)
     /\ last.arg.placement_id \in PlacementIds
     /\ validate_coordinates(last.arg.latitude, last.arg.longitude)
     /\ last.arg.log_date \in 0..LastDay)
        => /\ last.err = "ok"
           /\ last.before \subseteq logs
           /\ Cardinality(logs \ last.before) = 1
           /\ \A r \in logs \ last.before :
                 /\ r.status = PENDING_REVIEW
                 /\ r.client_uuid = last.arg.client_uuid
                 /\ r.student_id = last.student

\* C17: the entry a create_log call returns for a token is owned by the
\* calling student, and sync_logs skips only entries whose token is stored
\* for the calling student.
C17_KeyedByStudentAndToken ==
    /\ (IsCreate /\ last.err = "ok" /\ last.rid # NoId)
          => RowOf(logs, last.rid).student_id = last.student
    /\ IsSync =>
          last.skipped <= Cardinality({i \in DOMAIN last.arg :
              \E r \in last.before :
                  /\ r.client_uuid = Field(last.arg[i], "client_uuid", None)
                  /\ r.student_id = last.student})

IsWeek == last.op = "calculate_week_number"
Offset == last.arg.log_date - last.arg.placement.start_date
WeekAt(log_date) == calculate_week_number(log_date, last.arg.placement).val

IsLocation == last.op = "get_location_status"
HasCentre(geofence) ==
    {"center_latitude", "center_longitude"} \subseteq DOMAIN geofence
CentreLatitude(geofence) ==
    IF HasCentre(geofence) THEN geofence.center_latitude ELSE geofence.latitude
CentreLongitude(geofence) ==
    IF HasCentre(geofence) THEN geofence.center_longitude ELSE geofence.longitude

\* C19: get_location_status returns unknown when there is no geofence or the
\* point is (0, 0); for every other point and geofence it returns within when
\* the distance from the point to the centre of the geofence is at most the
\* radius, and outside when it is larger.
C19_LocationClassification ==
    IsLocation =>
        LET g == last.arg.geofence
            lat == last.arg.latitude
            lon == last.arg.longitude
        IN  /\ last.err = "ok"
            /\ last.val =
                 IF DOMAIN g = {} \/ (lat = 0 /\ lon = 0) THEN UNKNOWN
                 ELSE IF calculate_distance(lat, lon, CentreLatitude(g),
                                            CentreLongitude(g))
                            <= g.radius_meters
                 THEN WITHIN ELSE OUTSIDE

\* C21: at most one entry is stored per (student, log_date), and a create_log
\* or sync_logs call adds no entry on a date on which the student already has
\* one.
C21_OnePerStudentDate ==
    /\ \A r1, r2 \in logs :
          (r1.student_id = r2.student_id /\ r1.log_date = r2.log_date)
              => r1 = r2
    /\ (IsCreate \/ IsSync) =>
          \A r \in logs \ last.before :
              ~\E q \in last.before : /\ q.student_id = r.student_id
                                      /\ q.log_date = r.log_date

\* C22: delete_log removes no entry from the stored set (the entry stays,
\* marked deleted), and delete_log on a verified entry is rejected with an
\* error and leaves the stored set as it was.
C22_SoftGuardedDelete ==
    last.op = "delete_log" =>
        /\ \A r \in last.before : \E q \in logs : q.id = r.id
        /\ StatusOf(last.before, last.id) = VERIFIED
              => (last.err # "ok" /\ logs = last.before)

IsDistance == last.op = "calculate_distance"
Abs(x) == IF x < 0 THEN 0 - x ELSE x
Tolerance == [num |-> 1, den |-> 1000000]

C24_NoReviewRace ==
    [][\A r \in logs : \A q \in logs' :
          (q.id = r.id /\ r.status = VERIFIED)
              => (q.status = VERIFIED /\ Content(q) = Content(r))]_vars

\* The fields of an entry that only creation and review may set.
Reserved(r) ==
    [status |-> r.status, reviewed_at |-> r.reviewed_at,
     reviewer_id |-> r.reviewer_id, reviewer_comment |-> r.reviewer_comment,
     client_uuid |-> r.client_uuid, student_id |-> r.student_id,
     week_number |-> r.week_number]

\* C25: update_log leaves the status, the reviewer fields, the token, the
\* owning student and the week number of the entry as they were, and the
\* stored week number of every entry is the week of its stored date.
C25_UpdateKeepsReserved ==
    /\ (last.op = "update_log" /\ StatusOf(last.before, last.id) # None)
          => /\ StatusOf(logs, last.id) # None
             /\ Reserved(RowOf(logs, last.id))
                   = Reserved(RowOf(last.before, last.id))
    /\ \A r \in logs : r.week_number = (r.log_date \div DaysPerWeek) + 1

Carrying(b, t) == {i \in DOMAIN b : Field(b[i], "client_uuid", None) = t}
FirstCarrying(b, t) ==
    CHOOSE i \in Carrying(b, t) : \A j \in Carrying(b, t) : i <= j

\* C27: when all entries of a batch are well formed and carry one token that
\* is not stored, the first is created and counted synced, every later one is
\* counted skipped, and exactly one row with the token is stored, holding the
\* values of the first entry.
C27_DuplicatesInBatch ==
    (/\ IsSync
     /\ ~last.again
     /\ Len(last.arg) >= 2
     /\ Malformed(last.arg) = {}
     /\ \E t \in BatchTokens(last.arg) \ ({None} \cup StoredTokens(last.before)) :
           BatchTokens(last.arg) = {t})
        => LET t == Field(last.arg[1], "client_uuid", None)
               first == last.arg[FirstCarrying(last.arg, t)]
           IN  /\ last.synced = 1
               /\ last.skipped = Len(last.arg) - 1
               /\ last.failed = 0
               /\ Cardinality({r \in logs : r.client_uuid = t}) = 1
               /\ \A r \in logs :
                     r.client_uuid = t
                         => /\ r.activity_description = first.activities
                            /\ r.latitude = first.latitude
                            /\ r.longitude = first.longitude
                            /\ r.student_id = last.student

\* C28: for a create_log call with a token that is not stored, a placement
\* that does not resolve yields PlacementNotFound whatever the coordinates,
\* and with a resolvable placement coordinates out of range yield
\* InvalidCoordinate whatever the date; a failed call reports that one error
\* and stores nothing.
C28_CheckOrder ==
    (IsCreate /\ last.arg.client_uuid \notin StoredTokens(last.before))
        => /\ last.arg.placement_id \notin PlacementIds
                 => (last.err = PlacementNotFound /\ logs = last.before)
           /\ (/\ last.arg.placement_id \in PlacementIds
               /\ ~validate_coordinates(last.arg.latitude, last.arg.longitude))
                 => (last.err = InvalidCoordinate /\ logs = last.before)

\* C29: sync_logs returns synced + skipped + failed = number of entries and
\* one message per failed entry, the messages standing in the input order of
\* the entries they belong to.
C29_SummaryAccounting ==
    IsSync =>
        /\ last.synced + last.skipped + last.failed = Len(last.arg)
        /\ Len(last.errors) = last.failed
        /\ \E f \in [1..last.failed -> DOMAIN last.arg] :
              /\ \A j, k \in 1..last.failed : j < k => f[j] < f[k]
              /\ \A j \in 1..last.failed :
                    /\ last.errors[j][1] = ErrorTag(last.arg[f[j]])
                    /\ (last.arg[f[j]].log_date = BadDate)
                          <=> (last.errors[j][2] = fromisoformat(BadDate).err)

\* C29 witness: both entries of a batch failed, for different reasons and
\* with different tokens, the malformed one first.
C29_TwoFailuresInOrder ==
    /\ IsSync
    /\ ~last.again
    /\ last.failed = 2
    /\ last.arg[1].log_date = BadDate
    /\ last.arg[2].log_date # BadDate
    /\ last.errors[1][1] # last.errors[2][1]
    /\ last.errors[1][2] # last.errors[2][2]

\* C30: every message of a failed entry names the entry's token, and names
\* "unknown" when the entry has no token - the key is missing, or it is
\* present with the value None.
C30_FailureTag ==
    IsSync =>
        \E f \in [1..last.failed -> DOMAIN last.arg] :
            /\ \A j, k \in 1..last.failed : j < k => f[j] < f[k]
            /\ \A j \in 1..Len(last.errors) :
                  LET t == Field(last.arg[f[j]], "client_uuid", None)
                  IN  last.errors[j][1] = IF t = None THEN "unknown" ELSE t

====
